---- MODULE Spec2Model ----
(***************************************************************************)
(* Model of florence_embedding/langgraph_orchestrator.py: the query        *)
(* classifier, the four route handlers and the orchestrator.               *)
(*                                                                         *)
(* Python values are represented as follows.                               *)
(*   - An optional value is a sequence of length 0 (None) or 1 (Some(v)).  *)
(*   - A str that the code inspects (the query text, the intent) is a      *)
(*     sequence of one-character strings.                                  *)
(*   - A str that the code only builds (the response) is a sequence of     *)
(*     tokens; the empty str is the empty sequence.                        *)
(*   - An image URL is the sequence of its "/"-separated segments; a       *)
(*     relative path is the sequence of its segments.                      *)
(*   - The external gateways (embedding_utils, supabase_utils,             *)
(*     gpt4o_utils) are an oracle record gw chosen per call: what each     *)
(*     gateway returns in this call.                                       *)
(***************************************************************************)
EXTENDS Integers, Sequences, FiniteSets, TLC

VARIABLES pc, op, args, gateways, query_type, calls, ret, envelope, locals

vars == <<pc, op, args, gateways, query_type, calls, ret, envelope, locals>>

-----------------------------------------------------------------------------
(* Bounds of the model *)

\* longest list a search gateway returns
MaxMatches == 2
\* longest list the description lookup returns for one path
MaxLookup == 2
\* largest top_k a caller passes (top_k is a positive integer)
MaxTopK == 2

-----------------------------------------------------------------------------
(* Optional values and Python truthiness *)

None == <<>>
Some(v) == <<v>>
IsNone(o) == Len(o) = 0

\* bool(x) of an optional str held whole ("" is falsy)
TruthyStr(o) == Len(o) = 1 /\ o[1] # ""
\* bool(x) of an optional sequence (str as characters, list, path): empty is falsy
TruthySeq(o) == Len(o) = 1 /\ Len(o[1]) > 0
\* bool(x) of an optional int (0 is falsy)
TruthyInt(o) == Len(o) = 1 /\ o[1] # 0

\* xs[:n + 1]: a slice one too long
Take_OffByOne(xs, n) == SubSeq(xs, 1, IF Len(xs) < n + 1 THEN Len(xs) ELSE n + 1)

\* xs[:n]
Take(xs, n) == SubSeq(xs, 1, IF Len(xs) < n THEN Len(xs) ELSE n)

\* all sequences over S of length at most n
SeqUpTo(S, n) == UNION {[1..k -> S] : k \in 0..n}

-----------------------------------------------------------------------------
(* str.lower(), str.strip() and the "in" substring test *)

UpperLetters ==
  <<"A","B","C","D","E","F","G","H","I","J","K","L","M",
    "N","O","P","Q","R","S","T","U","V","W","X","Y","Z">>
LowerLetters ==
  <<"a","b","c","d","e","f","g","h","i","j","k","l","m",
    "n","o","p","q","r","s","t","u","v","w","x","y","z">>

LowerChar(c) ==
  IF \E i \in 1..26 : UpperLetters[i] = c
    THEN LowerLetters[CHOOSE i \in 1..26 : UpperLetters[i] = c]
    ELSE c

Lower(s) == [i \in 1..Len(s) |-> LowerChar(s[i])]

\* needle in hay
Contains(hay, needle) ==
  \E i \in 1..(Len(hay) - Len(needle) + 1) :
     SubSeq(hay, i, i + Len(needle) - 1) = needle

Whitespace == {" ", "\t", "\n"}

RECURSIVE LStrip(_)
LStrip(s) ==
  IF Len(s) > 0 /\ s[1] \in Whitespace THEN LStrip(Tail(s)) ELSE s

RECURSIVE RStrip(_)
RStrip(s) ==
  IF Len(s) > 0 /\ s[Len(s)] \in Whitespace
    THEN RStrip(SubSeq(s, 1, Len(s) - 1)) ELSE s

Strip(s) == RStrip(LStrip(s))

W_image == <<"i","m","a","g","e">>
W_show == <<"s","h","o","w">>
W_picture == <<"p","i","c","t","u","r","e">>
W_drawing == <<"d","r","a","w","i","n","g">>
W_screenshot == <<"s","c","r","e","e","n","s","h","o","t">>

\* the word list of the text-only rule, in the code's order
TextIntentWords == <<W_show, W_image, W_picture, W_drawing, W_screenshot>>

-----------------------------------------------------------------------------
(* QueryType and classify_query *)

TEXT_TO_TEXT == "text_to_text"
TEXT_TO_IMAGES == "text_to_images"
IMAGE_TO_IMAGES == "image_to_images"
IMAGE_TO_TEXT == "image_to_text"
QueryType == {TEXT_TO_TEXT, TEXT_TO_IMAGES, IMAGE_TO_IMAGES, IMAGE_TO_TEXT}

\* the raise at the end of classify_query
ValueError == "ValueError"

\* classify_query without the .lower() calls
classify_query_CaseSensitive(has_text, has_image, user_intent) ==
  IF has_image /\ has_text THEN
    IF TruthySeq(user_intent)
       /\ (Contains(user_intent[1], W_image) \/ Contains(user_intent[1], W_show))
      THEN IMAGE_TO_IMAGES
      ELSE IMAGE_TO_TEXT
  ELSE IF has_image THEN IMAGE_TO_IMAGES
  ELSE IF has_text THEN
    IF TruthySeq(user_intent)
       /\ \E w \in 1..Len(TextIntentWords) :
             Contains(user_intent[1], TextIntentWords[w])
      THEN TEXT_TO_IMAGES
      ELSE TEXT_TO_TEXT
  ELSE ValueError

\* has_text, has_image: the truth values of the arguments; user_intent: optional str
classify_query(has_text, has_image, user_intent) ==
  IF has_image /\ has_text THEN
    IF TruthySeq(user_intent)
       /\ (Contains(Lower(user_intent[1]), W_image)
           \/ Contains(Lower(user_intent[1]), W_show))
      THEN IMAGE_TO_IMAGES
      ELSE IMAGE_TO_TEXT
  ELSE IF has_image THEN IMAGE_TO_IMAGES
  ELSE IF has_text THEN
    IF TruthySeq(user_intent)
       /\ \E w \in 1..Len(TextIntentWords) :
             Contains(Lower(user_intent[1]), TextIntentWords[w])
      THEN TEXT_TO_IMAGES
      ELSE TEXT_TO_TEXT
  ELSE ValueError

-----------------------------------------------------------------------------
(* Evidence records, image matches and URLs *)

\* a description row: the keys the handlers read with .get(); search_type is
\* absent until a handler sets it
Desc(pk, rp, page, region) ==
  [project_key |-> pk, relative_path |-> rp, page_num |-> page,
   region_number |-> region, search_type |-> None]

\* a row of search_image_embeddings
ClipMatch(url, pk, page, sim) ==
  [image_url |-> url, project_key |-> pk, page_num |-> page, similarity |-> sim]

CLIP_visual == "CLIP_visual"
GPT4o_Vision_text == "GPT4o_Vision_text"

\* d["search_type"] = tag
Tag(d, tag) == [d EXCEPT !.search_type = Some(tag)]

UrlBase == "https://storage.example"
CorpusRoot == "test_embeddings"

\* URL format: .../test_embeddings/{project_key}/{relative_path}
construct_image_url(project_key, relative_path) ==
  <<UrlBase, CorpusRoot, project_key>> \o relative_path

\* f"test_embeddings/{project_key}/" in image_url, on whole segments: the two
\* segments occur in a row and a "/" follows them
CorpusPositions(image_url, project_key) ==
  {i \in 1..(Len(image_url) - 2) :
      image_url[i] = CorpusRoot /\ image_url[i + 1] = project_key}

HasCorpusPrefix(image_url, project_key) ==
  CorpusPositions(image_url, project_key) # {}

\* image_url.split(f"test_embeddings/{project_key}/")[-1]: what follows the last
\* occurrence of the separator
SplitLast(image_url, project_key) ==
  LET P == CorpusPositions(image_url, project_key)
      last == CHOOSE i \in P : \A j \in P : j <= i
  IN  SubSeq(image_url, last + 2, Len(image_url))

-----------------------------------------------------------------------------
(* What the gateways can return *)

PathA == <<"a.png">>

\* rows the description lookup returns for (P1, a.png): two regions of one page
DescA0 == Desc(Some("P1"), Some(PathA), Some(1), None)
DescA1 == Desc(Some("P1"), Some(PathA), Some(1), Some(1))
LookupDescs == {DescA0, DescA1}

\* rows the text search returns: one that the lookup also returns, one without
\* relative_path, page_num and region_number
DescB == Desc(Some("P2"), None, None, None)
TextDescs == {DescA0, DescB}

\* rows the image search returns: one inside the corpus, one whose URL is not of
\* the corpus format, one without project_key and image_url
ClipA == ClipMatch(Some(construct_image_url("P1", PathA)), Some("P1"), Some(1), Some(912))
ClipForeign == ClipMatch(Some(<<UrlBase, "other_bucket", "P1", "a.png">>), Some("P1"), Some(2), None)
ClipBare == ClipMatch(None, None, None, None)
ClipMatches == {ClipA, ClipForeign, ClipBare}

\* generate_text_response: absent, empty, or an answer
Answers == {None, Some(<<>>), Some(<<"generated answer">>)}

\* the keys the description lookup is asked for in this model
LookupKeys == {<<"P1", PathA>>}

\* one call's gateway outcomes: what each gateway returns when the handler
\* calls it (a gateway the handler does not reach keeps the first value)
Gateway(te, st, ie, cm, lk, cap, ans) ==
  [text_embedding |-> te, search_text |-> st, image_embedding |-> ie,
   clip_matches |-> cm, lookup |-> lk, caption |-> cap, answer |-> ans]

NoLookup == [k \in LookupKeys |-> <<>>]

\* embed_text_openai and search_text_embeddings: any list after a vector; after
\* a failed embedding, what the search would return were it asked all the same
TextSearchOutcomes ==
  {<<None, <<>>>>, <<None, <<DescA0>>>>}
    \cup {<<Some("vector"), st>> : st \in SeqUpTo(TextDescs, MaxMatches)}

\* embed_image_clip and search_image_embeddings, likewise
ImageSearchOutcomes ==
  {<<None, <<>>>>, <<None, <<ClipA>>>>}
    \cup {<<Some("vector"), cm>> : cm \in SeqUpTo(ClipMatches, MaxMatches)}

\* the lookup answers for the keys of the matches inside the corpus
LookupOutcomes(cm) ==
  IF \E i \in 1..Len(cm) : cm[i] = ClipA
    THEN [LookupKeys -> SeqUpTo(LookupDescs, MaxLookup)]
    ELSE {NoLookup}

\* describe_image_with_gpt4o with the text search: any text search after a
\* caption; after no caption, a text search that would have found a row
CaptionOutcomes ==
  {<<cap, ts[1], ts[2]>> :
     cap \in {None, Some("")}, ts \in {<<None, <<>>>>, <<Some("vector"), <<DescA0>>>>}}
    \cup {<<Some("a floor plan"), ts[1], ts[2]>> : ts \in TextSearchOutcomes}

\* the gateways a route can reach, by query type (None: no route is taken)
ImageSearchFor(qt) ==
  IF qt \in {Some(IMAGE_TO_IMAGES), Some(IMAGE_TO_TEXT)}
    THEN ImageSearchOutcomes
    ELSE {<<None, <<>>>>}

CaptionFor(qt) ==
  IF qt = Some(IMAGE_TO_TEXT) THEN CaptionOutcomes
  ELSE IF qt \in {Some(TEXT_TO_TEXT), Some(TEXT_TO_IMAGES)}
    THEN {<<None, ts[1], ts[2]>> : ts \in TextSearchOutcomes}
  ELSE {<<None, None, <<>>>>}

AnswersFor(qt) ==
  IF qt \in {Some(TEXT_TO_TEXT), Some(IMAGE_TO_TEXT)} THEN Answers ELSE {None}

LookupFor(qt, cm) ==
  IF qt = Some(IMAGE_TO_TEXT) THEN LookupOutcomes(cm) ELSE {NoLookup}

\* the oracle of one call: is, cap from the sets above
GatewayOf(is, lk, cap, ans) ==
  Gateway(cap[2], cap[3], is[1], is[2], lk, cap[1], ans)

\* get_image_descriptions_by_paths(project_key, [rel_path])
get_image_descriptions_by_paths(gw, project_key, rel_path) ==
  IF <<project_key, rel_path>> \in DOMAIN gw.lookup
    THEN gw.lookup[<<project_key, rel_path>>]
    ELSE <<>>

-----------------------------------------------------------------------------
(* Response texts *)

\* a str literal as response text
Text(s) == Some(<<s>>)

\* str(x) of an optional str / int inside an f-string
StrOfStr(o) == IF IsNone(o) THEN "None" ELSE o[1]
StrOfInt(o) == IF IsNone(o) THEN "None" ELSE ToString(o[1])

\* f"{x:.3f}" of a similarity held in thousandths
Format3f(x) ==
  <<ToString(x \div 1000), ".", ToString((x \div 100) % 10),
    ToString((x \div 10) % 10), ToString(x % 10)>>

\* the three keys every envelope has
Envelope(response, sources, images) ==
  [response |-> response, sources |-> sources, images |-> images]

\* what a handler hands back: the return statement taken, the dict returned,
\* the calls made in order, and the handler's local variables
Frame(r, env, cs, ls) == [ret |-> r, envelope |-> env, calls |-> cs, locals |-> ls]

\* if project_key and relative_path:
HasImageRef(desc) == TruthyStr(desc.project_key) /\ TruthySeq(desc.relative_path)

\* the URL loop without its "if project_key and relative_path" guard
DescImages_Unfiltered(descs) ==
  [i \in 1..Len(descs) |->
     <<UrlBase, CorpusRoot, StrOfStr(descs[i].project_key)>>
       \o (IF IsNone(descs[i].relative_path) THEN <<"None">> ELSE descs[i].relative_path[1])]

\* the URL loop of route_text_to_images and route_image_to_text
DescImages(descs) ==
  LET with == SelectSeq(descs, HasImageRef)
  IN  [i \in 1..Len(with) |->
         construct_image_url(with[i].project_key[1], with[i].relative_path[1])]

\* one construct_image_url call per URL built
UrlCalls(n) == [i \in 1..n |-> "construct_image_url"]

-----------------------------------------------------------------------------
(* route_text_to_text *)

route_text_to_text(text_query, top_k, gw) ==
  LET query_embedding == gw.text_embedding
      descriptions == gw.search_text
      response_text == gw.answer
  IN  IF IsNone(query_embedding) THEN
        Frame("text_to_text:embedding_failed",
              Envelope(Text("I encountered an error processing your query. Please try again."),
                       <<>>, <<>>),
              <<"embed_text_openai">>,
              [query_embedding |-> query_embedding])
      ELSE IF Len(descriptions) = 0 THEN
        Frame("text_to_text:no_results",
              Envelope(Text("I couldn't find any relevant information to answer your question. Please try rephrasing or asking about a different topic."),
                       <<>>, <<>>),
              <<"embed_text_openai", "search_text_embeddings">>,
              [query_embedding |-> query_embedding, descriptions |-> descriptions])
      ELSE
        Frame("text_to_text:answer",
              Envelope(response_text, descriptions, <<>>),
              <<"embed_text_openai", "search_text_embeddings", "generate_text_response">>,
              [query_embedding |-> query_embedding, descriptions |-> descriptions])

-----------------------------------------------------------------------------
(* route_text_to_images *)

\* image_info of route_text_to_images, one entry per description with an image
TextImageInfo(descriptions) ==
  LET with == SelectSeq(descriptions, HasImageRef)
  IN  [i \in 1..Len(with) |->
         [url |-> construct_image_url(with[i].project_key[1], with[i].relative_path[1]),
          project_key |-> with[i].project_key,
          page_num |-> with[i].page_num,
          region_number |-> with[i].region_number]]

\* the "[i] Project P, Page N[, Region R]\n" lines from entry i on
RECURSIVE TextImageLines(_, _)
TextImageLines(image_info, i) ==
  IF i > Len(image_info) THEN <<>>
  ELSE <<"[", ToString(i), "] Project ", StrOfStr(image_info[i].project_key),
         ", Page ", StrOfInt(image_info[i].page_num)>>
       \o (IF TruthyInt(image_info[i].region_number)
             THEN <<", Region ", StrOfInt(image_info[i].region_number)>>
             ELSE <<>>)
       \o <<"\n">>
       \o TextImageLines(image_info, i + 1)

route_text_to_images(text_query, top_k, gw) ==
  LET query_embedding == gw.text_embedding
      descriptions == gw.search_text
      images == DescImages(descriptions)
      image_info == TextImageInfo(descriptions)
      response_text ==
        <<"I found ", ToString(Len(images)), " relevant image(s) for your query:\n\n">>
          \o TextImageLines(image_info, 1)
  IN  IF IsNone(query_embedding) THEN
        Frame("text_to_images:embedding_failed",
              Envelope(Text("I encountered an error processing your query."), <<>>, <<>>),
              <<"embed_text_openai">>,
              [query_embedding |-> query_embedding])
      ELSE IF Len(descriptions) = 0 THEN
        Frame("text_to_images:no_results",
              Envelope(Text("I couldn't find any relevant images for your query."), <<>>, <<>>),
              <<"embed_text_openai", "search_text_embeddings">>,
              [query_embedding |-> query_embedding, descriptions |-> descriptions])
      ELSE
        Frame("text_to_images:found",
              [response |-> Some(response_text), sources |-> descriptions,
               images |-> images, image_info |-> image_info],
              <<"embed_text_openai", "search_text_embeddings">> \o UrlCalls(Len(images)),
              [query_embedding |-> query_embedding, descriptions |-> descriptions])

-----------------------------------------------------------------------------
(* route_image_to_images *)

\* if image_url:
HasImageUrl(match) == TruthySeq(match.image_url)

ClipImages(clip_matches) ==
  LET with == SelectSeq(clip_matches, HasImageUrl)
  IN  [i \in 1..Len(with) |-> with[i].image_url[1]]

ClipImageInfo(clip_matches) ==
  LET with == SelectSeq(clip_matches, HasImageUrl)
  IN  [i \in 1..Len(with) |->
         [url |-> with[i].image_url[1],
          project_key |-> with[i].project_key,
          page_num |-> with[i].page_num,
          similarity |-> IF IsNone(with[i].similarity) THEN Some(0) ELSE with[i].similarity,
          search_type |-> CLIP_visual]]

\* the "[i] Project P, Page N[ (similarity: S)]\n" lines from entry i on
RECURSIVE ClipImageLines(_, _)
ClipImageLines(image_info, i) ==
  IF i > Len(image_info) THEN <<>>
  ELSE <<"[", ToString(i), "] Project ", StrOfStr(image_info[i].project_key),
         ", Page ", StrOfInt(image_info[i].page_num)>>
       \o (IF TruthyInt(image_info[i].similarity)
             THEN <<" (similarity: ">> \o Format3f(image_info[i].similarity[1]) \o <<")">>
             ELSE <<>>)
       \o <<"\n">>
       \o ClipImageLines(image_info, i + 1)

route_image_to_images(top_k, gw) ==
  LET image_embedding == gw.image_embedding
      clip_matches == gw.clip_matches
      images == ClipImages(clip_matches)
      image_info == ClipImageInfo(clip_matches)
      response_text ==
        <<"I found ", ToString(Len(images)), " visually similar image(s):\n\n">>
          \o ClipImageLines(image_info, 1)
  IN  IF IsNone(image_embedding) THEN
        Frame("image_to_images:embedding_failed",
              Envelope(Text("I encountered an error processing your image."), <<>>, <<>>),
              <<"embed_image_clip">>,
              [image_embedding |-> image_embedding])
      ELSE IF Len(clip_matches) = 0 THEN
        Frame("image_to_images:no_results",
              Envelope(Text("I couldn't find any visually similar images."), <<>>, <<>>),
              <<"embed_image_clip", "search_image_embeddings">>,
              [image_embedding |-> image_embedding, clip_matches |-> clip_matches])
      ELSE
        Frame("image_to_images:found",
              [response |-> Some(response_text), sources |-> clip_matches,
               images |-> images, image_info |-> image_info,
               search_type |-> CLIP_visual],
              <<"embed_image_clip", "search_image_embeddings">>,
              [image_embedding |-> image_embedding, clip_matches |-> clip_matches])

-----------------------------------------------------------------------------
(* route_image_to_text *)

\* the guard of the lookup: project_key and image_url, and the URL is of the
\* corpus format for that project
ClipInCorpus(clip_match) ==
  /\ TruthyStr(clip_match.project_key)
  /\ TruthySeq(clip_match.image_url)
  /\ HasCorpusPrefix(clip_match.image_url[1], clip_match.project_key[1])

\* descs[0]["search_type"] = "CLIP_visual": the first row of a lookup is tagged
TagVisual(descs) ==
  IF Len(descs) = 0 THEN <<>>
  ELSE <<Tag(descs[1], CLIP_visual)>> \o Tail(descs)

\* what one pass of the "for clip_match in clip_matches" loop appends
VisualDescs(clip_match, gw) ==
  IF ClipInCorpus(clip_match)
    THEN TagVisual(get_image_descriptions_by_paths(
                     gw, clip_match.project_key[1],
                     SplitLast(clip_match.image_url[1], clip_match.project_key[1])))
    ELSE <<>>

\* all_descriptions after the loop over clip_matches, from match i on
RECURSIVE VisualPath(_, _, _)
VisualPath(clip_matches, i, gw) ==
  IF i > Len(clip_matches) THEN <<>>
  ELSE VisualDescs(clip_matches[i], gw) \o VisualPath(clip_matches, i + 1, gw)

\* one lookup call per match that passes the guard
LookupCalls(clip_matches) ==
  LET with == SelectSeq(clip_matches, ClipInCorpus)
  IN  [i \in 1..Len(with) |-> "get_image_descriptions_by_paths"]

\* text_match["search_type"] = "GPT4o_Vision_text" for every text match
CaptionPath(text_matches) ==
  [i \in 1..Len(text_matches) |-> Tag(text_matches[i], GPT4o_Vision_text)]

\* key = (project_key, page_num)
IdentityKey_NoRegion(desc) == <<desc.project_key, desc.page_num>>

\* key = (project_key, page_num, region_number)
IdentityKey(desc) == <<desc.project_key, desc.page_num, desc.region_number>>

\* the "Remove duplicates" loop from position i on, with the keys seen so far
RECURSIVE UniqueFrom(_, _, _)
UniqueFrom(all_descriptions, i, seen) ==
  IF i > Len(all_descriptions) THEN <<>>
  ELSE LET key == IdentityKey(all_descriptions[i])
       IN  IF key \notin seen
             THEN <<all_descriptions[i]>>
                    \o UniqueFrom(all_descriptions, i + 1, seen \cup {key})
             ELSE UniqueFrom(all_descriptions, i + 1, seen)

Unique(all_descriptions) == UniqueFrom(all_descriptions, 1, {})

\* Path 1 without its "if image_embedding" guard
ClipSearch_Unguarded(gw) == gw.clip_matches

\* Path 1: the image search runs only on an embedding
ClipSearch(gw) ==
  IF IsNone(gw.image_embedding) THEN <<>> ELSE gw.clip_matches

\* Path 2: the caption is embedded only if there is one, and the text search
\* runs only on an embedding
CaptionEmbedding(gw) ==
  IF TruthyStr(gw.caption) THEN gw.text_embedding ELSE None

\* Path 2 given up when Path 1 produced no embedding
CaptionSearch_NeedsVisual(gw) ==
  IF IsNone(gw.image_embedding) \/ IsNone(CaptionEmbedding(gw))
    THEN <<>> ELSE gw.search_text

CaptionSearch(gw) ==
  IF IsNone(CaptionEmbedding(gw)) THEN <<>> ELSE gw.search_text

DefaultQuestion == <<"What information is available about this image?">>

route_image_to_text(text_query, top_k, gw) ==
  LET image_embedding == gw.image_embedding
      clip_matches == ClipSearch(gw)
      vision_description == gw.caption
      desc_embedding == CaptionEmbedding(gw)
      text_found == CaptionSearch(gw)
      visual == VisualPath(clip_matches, 1, gw)
      text_matches == CaptionPath(text_found)
      all_descriptions == visual \o text_matches
      unique_descriptions == Unique(all_descriptions)
      query == IF TruthySeq(text_query) THEN text_query[1] ELSE DefaultQuestion
      sources == Take(unique_descriptions, top_k)
      images == DescImages(sources)
      retrieval ==
        <<"embed_image_clip">>
          \o (IF IsNone(image_embedding) THEN <<>> ELSE <<"search_image_embeddings">>)
          \o <<"describe_image_with_gpt4o">>
          \o (IF TruthyStr(vision_description) THEN <<"embed_text_openai">> ELSE <<>>)
          \o (IF IsNone(desc_embedding) THEN <<>> ELSE <<"search_text_embeddings">>)
          \o LookupCalls(clip_matches)
      ls == [image_embedding |-> image_embedding,
             clip_matches |-> clip_matches,
             vision_description |-> vision_description,
             desc_embedding |-> desc_embedding,
             visual |-> visual,
             text_matches |-> text_matches,
             all_descriptions |-> all_descriptions,
             unique_descriptions |-> unique_descriptions,
             query |-> query]
  IN  IF Len(unique_descriptions) = 0 THEN
        Frame("image_to_text:no_results",
              Envelope(Text("I couldn't find any relevant information for your image. Please try uploading a different image or adding a text query."),
                       <<>>, <<>>),
              retrieval, ls)
      ELSE
        Frame("image_to_text:answer",
              [response |-> gw.answer, sources |-> sources, images |-> images,
               clip_matches |-> clip_matches, text_matches |-> text_matches],
              retrieval \o <<"generate_text_response">> \o UrlCalls(Len(images)),
              ls)

-----------------------------------------------------------------------------
(* orchestrate_query *)

\* has_text = text_query, without the .strip()
HasTextValue_NoStrip(text_query) == text_query

\* has_text = text_query and text_query.strip()
HasTextValue(text_query) ==
  IF TruthySeq(text_query) THEN Some(Strip(text_query[1])) ELSE text_query

\* the route orchestrate_query takes for its arguments; None before the
\* classifier is reached
OrchestratedType(text_query, image) ==
  LET has_text == TruthySeq(HasTextValue(text_query))
      has_image == ~IsNone(image)
  IN  IF ~has_text /\ ~has_image THEN None
      ELSE Some(classify_query(has_text, has_image,
                               IF has_text THEN text_query ELSE None))

orchestrate_query(text_query, image, top_k, gw) ==
  LET query_type_ == OrchestratedType(text_query, image)
      routed ==
        IF query_type_[1] = TEXT_TO_TEXT THEN route_text_to_text(text_query, top_k, gw)
        ELSE IF query_type_[1] = TEXT_TO_IMAGES THEN route_text_to_images(text_query, top_k, gw)
        ELSE IF query_type_[1] = IMAGE_TO_IMAGES THEN route_image_to_images(top_k, gw)
        ELSE IF query_type_[1] = IMAGE_TO_TEXT THEN route_image_to_text(text_query, top_k, gw)
        ELSE Frame("orchestrate:unknown_type",
                   Envelope(Text("Unknown query type. Please try again."), <<>>, <<>>),
                   <<>>, <<>>)
  IN  IF IsNone(query_type_) THEN
        Frame("orchestrate:no_input",
              Envelope(Text("Please provide either a text query or upload an image."),
                       <<>>, <<>>),
              <<>>, <<>>)
      ELSE IF query_type_[1] = ValueError THEN
        Frame("orchestrate:raised", <<>>, <<"classify_query">>, <<>>)
      ELSE
        [routed EXCEPT !.calls = <<"classify_query">> \o routed.calls]

-----------------------------------------------------------------------------
(* Inputs *)

\* intent hints handed to classify_query directly
Hints ==
  {None,
   Some(<<>>),
   Some(<<"h","i">>),
   Some(<<"S","h","o","w"," ","m","e">>),
   Some(<<"a","n"," ","I","M","A","G","E">>),
   Some(<<"P","i","c","t","u","r","e","s">>),
   Some(<<"d","r","a","w","i","n","g">>),
   Some(<<"S","c","r","e","e","n","S","h","o","t">>),
   Some(<<"s","h","o"," ","w">>),
   Some(<<"i","m","a","g">>)}

\* text_query values handed to orchestrate_query
Texts ==
  {None,
   Some(<<>>),
   Some(<<" ","\t">>),
   Some(<<"h","i"," ">>),
   Some(<<" ","S","h","o","w">>),
   Some(<<"P","i","c","t","u","r","e","s">>)}

Images == {None, Some("image")}

TopKs == 1..MaxTopK

-----------------------------------------------------------------------------------------------------------------------------------------------------
(* The state machine: a behaviour is one call. Init holds the function called
   and its arguments; the action of that function runs it to its return. *)

ClassifyArgs ==
  [has_text : BOOLEAN, has_image : BOOLEAN, user_intent : Hints]

TextToTextArgs == [text_query : {Some(<<"h","i">>)}, top_k : TopKs]

TextToImagesArgs == [text_query : {Some(<<"s","h","o","w">>)}, top_k : TopKs]

ImageToImagesArgs == [image : {Some("image")}, top_k : TopKs]

ImageToTextArgs ==
  [image : {Some("image")}, text_query : {None, Some(<<"h","i">>)}, top_k : TopKs]

OrchestrateArgs == [text_query : Texts, image : Images, top_k : TopKs]

Init ==
  /\ pc = "called"
  /\ \/ op = "classify_query" /\ args \in ClassifyArgs
     \/ op = "route_text_to_text" /\ args \in TextToTextArgs
     \/ op = "route_text_to_images" /\ args \in TextToImagesArgs
     \/ op = "route_image_to_images" /\ args \in ImageToImagesArgs
     \/ op = "route_image_to_text" /\ args \in ImageToTextArgs
     \/ op = "orchestrate_query" /\ args \in OrchestrateArgs
  /\ gateways = <<>>
  /\ query_type = None
  /\ calls = <<>>
  /\ ret = "none"
  /\ envelope = <<>>
  /\ locals = <<>>

\* the state after the call returned frame f, having classified the query as qt,
\* with the gateways answering as gw
Returned(qt, gw, f) ==
  /\ pc' = "done"
  /\ gateways' = gw
  /\ query_type' = qt
  /\ calls' = f.calls
  /\ ret' = f.ret
  /\ envelope' = f.envelope
  /\ locals' = f.locals
  /\ UNCHANGED <<op, args>>

ClassifyQuery ==
  /\ pc = "called"
  /\ op = "classify_query"
  /\ Returned(Some(classify_query(args.has_text, args.has_image, args.user_intent)),
              <<>>,
              Frame("classify_query", <<>>, <<>>, <<>>))

RouteTextToText ==
  /\ pc = "called"
  /\ op = "route_text_to_text"
  /\ LET qt == Some(TEXT_TO_TEXT)
     IN  \E is \in ImageSearchFor(qt) :
         \E lk \in LookupFor(qt, is[2]) :
         \E cap \in CaptionFor(qt) :
         \E ans \in AnswersFor(qt) :
            Returned(None, GatewayOf(is, lk, cap, ans),
                     route_text_to_text(args.text_query, args.top_k,
                                              GatewayOf(is, lk, cap, ans)))

RouteTextToImages ==
  /\ pc = "called"
  /\ op = "route_text_to_images"
  /\ LET qt == Some(TEXT_TO_IMAGES)
     IN  \E is \in ImageSearchFor(qt) :
         \E lk \in LookupFor(qt, is[2]) :
         \E cap \in CaptionFor(qt) :
         \E ans \in AnswersFor(qt) :
            Returned(None, GatewayOf(is, lk, cap, ans),
                     route_text_to_images(args.text_query, args.top_k,
                                                GatewayOf(is, lk, cap, ans)))

RouteImageToImages ==
  /\ pc = "called"
  /\ op = "route_image_to_images"
  /\ LET qt == Some(IMAGE_TO_IMAGES)
     IN  \E is \in ImageSearchFor(qt) :
         \E lk \in LookupFor(qt, is[2]) :
         \E cap \in CaptionFor(qt) :
         \E ans \in AnswersFor(qt) :
            Returned(None, GatewayOf(is, lk, cap, ans),
                     route_image_to_images(args.top_k, GatewayOf(is, lk, cap, ans)))

RouteImageToText ==
  /\ pc = "called"
  /\ op = "route_image_to_text"
  /\ LET qt == Some(IMAGE_TO_TEXT)
     IN  \E is \in ImageSearchFor(qt) :
         \E lk \in LookupFor(qt, is[2]) :
         \E cap \in CaptionFor(qt) :
         \E ans \in AnswersFor(qt) :
            Returned(None, GatewayOf(is, lk, cap, ans),
                     route_image_to_text(args.text_query, args.top_k,
                                               GatewayOf(is, lk, cap, ans)))

OrchestrateQuery ==
  /\ pc = "called"
  /\ op = "orchestrate_query"
  /\ LET qt == OrchestratedType(args.text_query, args.image)
     IN  \E is \in ImageSearchFor(qt) :
         \E lk \in LookupFor(qt, is[2]) :
         \E cap \in CaptionFor(qt) :
         \E ans \in AnswersFor(qt) :
            Returned(qt, GatewayOf(is, lk, cap, ans),
                     orchestrate_query(args.text_query, args.image, args.top_k,
                                            GatewayOf(is, lk, cap, ans)))

Next ==
  \/ ClassifyQuery
  \/ RouteTextToText
  \/ RouteTextToImages
  \/ RouteImageToImages
  \/ RouteImageToText
  \/ OrchestrateQuery

Spec == Init /\ [][Next]_vars

-----------------------------------------------------------------------------
(* Properties *)

\* the call has returned
Done == pc = "done"

\* the route a finished call went through: the handler called, or the handler
\* orchestrate_query dispatched to
RouteTaken ==
  IF op = "route_text_to_text" THEN Some(TEXT_TO_TEXT)
  ELSE IF op = "route_text_to_images" THEN Some(TEXT_TO_IMAGES)
  ELSE IF op = "route_image_to_images" THEN Some(IMAGE_TO_IMAGES)
  ELSE IF op = "route_image_to_text" THEN Some(IMAGE_TO_TEXT)
  ELSE IF op = "orchestrate_query" /\ Len(query_type) = 1 /\ query_type[1] \in QueryType
    THEN query_type
  ELSE None

InRoute(r) == Done /\ RouteTaken = Some(r)

\* a dict with the three envelope keys
WellFormed(env) == {"response", "sources", "images"} \subseteq DOMAIN env

\* the response is text and is not empty
NonEmptyText(response) == Len(response) = 1 /\ Len(response[1]) > 0

\* the hints of Hints that contain "image" or "show", whatever the case
HintsImageOrShow ==
  {Some(<<"S","h","o","w"," ","m","e">>),
   Some(<<"a","n"," ","I","M","A","G","E">>)}

\* the hints of Hints that contain one of the five words of the text-only rule
HintsAnyWord ==
  HintsImageOrShow
    \cup {Some(<<"P","i","c","t","u","r","e","s">>),
          Some(<<"d","r","a","w","i","n","g">>),
          Some(<<"S","c","r","e","e","n","S","h","o","t">>)}

\* the rule table of the classifier, on the hints of Hints
C1_Table(has_text, has_image, user_intent) ==
  CASE has_text /\ has_image ->
         IF user_intent \in HintsImageOrShow THEN IMAGE_TO_IMAGES ELSE IMAGE_TO_TEXT
    [] ~has_text /\ has_image -> IMAGE_TO_IMAGES
    [] has_text /\ ~has_image ->
         IF user_intent \in HintsAnyWord THEN TEXT_TO_IMAGES ELSE TEXT_TO_TEXT
    [] ~has_text /\ ~has_image -> ValueError

\* C1: for every has_text, has_image and intent hint, classify_query returns the
\* route of the ordered rule table, and fails with the ValueError exactly when
\* neither text nor image is present.
C1_ClassifierFollowsRuleTable ==
  (Done /\ op = "classify_query") =>
     query_type = Some(C1_Table(args.has_text, args.has_image, args.user_intent))

\* text only, a hint with "Pictures" (a word of the text-only rule alone, in
\* mixed case): TextToImages
C1_Witness ==
  /\ Done /\ op = "classify_query"
  /\ args.has_text /\ ~args.has_image
  /\ args.user_intent = Some(<<"P","i","c","t","u","r","e","s">>)
  /\ query_type = Some(TEXT_TO_IMAGES)

\* C2: every orchestrate_query call ends in an envelope with response, sources
\* and images whose response is non-empty text, whatever the gateways return
\* (the answer generation returning absent or empty text included).
C2_ResponseNeverEmpty ==
  (Done /\ op = "orchestrate_query") =>
     WellFormed(envelope) /\ NonEmptyText(envelope.response)

\* text_query is absent, empty or only whitespace
C8_Blank(text_query) ==
  IsNone(text_query) \/ \A i \in 1..Len(text_query[1]) : text_query[1][i] \in Whitespace

C8_NoInputEnvelope ==
  Envelope(Text("Please provide either a text query or upload an image."), <<>>, <<>>)

\* C8: without usable input orchestrate_query returns the fixed "please provide
\* input" envelope and calls neither the classifier nor a gateway; with any
\* other input the classifier is called and returns a route, so the call never
\* ends in the classifier's failure or in the "unknown query type" envelope.
C8_NoInputGuard ==
  (Done /\ op = "orchestrate_query") =>
     IF C8_Blank(args.text_query) /\ IsNone(args.image)
       THEN /\ ret = "orchestrate:no_input"
            /\ envelope = C8_NoInputEnvelope
            /\ calls = <<>>
            /\ query_type = None
       ELSE /\ Len(calls) > 0 /\ calls[1] = "classify_query"
            /\ Len(query_type) = 1 /\ query_type[1] \in QueryType
            /\ ret \notin {"orchestrate:no_input", "orchestrate:raised",
                           "orchestrate:unknown_type"}

\* a whitespace-only text and no image: the fixed envelope, nothing called
C8_Witness ==
  /\ Done /\ op = "orchestrate_query"
  /\ args.text_query = Some(<<" ","\t">>) /\ IsNone(args.image)
  /\ ret = "orchestrate:no_input"
  /\ calls = <<>>

-----------------------------------------------------------------------------
(* Properties of the route handlers *)

\* d.get(key)
C4_Get(d, key) == IF key \in DOMAIN d THEN d[key] ELSE None

\* the fallback shape: a response, no sources, no images
Degraded(env) ==
  /\ WellFormed(env)
  /\ NonEmptyText(env.response)
  /\ env.sources = <<>>
  /\ env.images = <<>>

\* C3 as stated: in each of the four handlers a failed embedding of the
\* handler's input gives a non-empty response, no sources and no images,
\* whatever the other gateways return.
C3_AsStated ==
  /\ InRoute(TEXT_TO_TEXT) /\ IsNone(gateways.text_embedding) => Degraded(envelope)
  /\ InRoute(TEXT_TO_IMAGES) /\ IsNone(gateways.text_embedding) => Degraded(envelope)
  /\ InRoute(IMAGE_TO_IMAGES) /\ IsNone(gateways.image_embedding) => Degraded(envelope)
  /\ InRoute(IMAGE_TO_TEXT) /\ IsNone(gateways.image_embedding) => Degraded(envelope)

\* the caption path of this call gets no embedding: no usable caption, or the
\* caption's embedding failed
C3_NoCaptionEmbedding ==
  ~TruthyStr(gateways.caption) \/ IsNone(gateways.text_embedding)

\* C3 (amended): in TextToText, TextToImages and ImageToImages a failed
\* embedding gives a non-empty response, no sources and no images, whatever the
\* other gateways return; in ImageToText the same holds when the image
\* embedding fails and the caption path gets no embedding either.
C3_EmbeddingFailureDegrades ==
  /\ InRoute(TEXT_TO_TEXT) /\ IsNone(gateways.text_embedding) => Degraded(envelope)
  /\ InRoute(TEXT_TO_IMAGES) /\ IsNone(gateways.text_embedding) => Degraded(envelope)
  /\ InRoute(IMAGE_TO_IMAGES) /\ IsNone(gateways.image_embedding) => Degraded(envelope)
  /\ InRoute(IMAGE_TO_TEXT) /\ IsNone(gateways.image_embedding) /\ C3_NoCaptionEmbedding
       => Degraded(envelope)

\* ImageToText, both embeddings failed while the image search and the lookup
\* had rows to give
C3_Witness ==
  /\ InRoute(IMAGE_TO_TEXT)
  /\ IsNone(gateways.image_embedding)
  /\ TruthyStr(gateways.caption) /\ IsNone(gateways.text_embedding)
  /\ gateways.clip_matches = <<ClipA>>
  /\ Len(gateways.lookup[<<"P1", PathA>>]) > 0
  /\ Degraded(envelope)

\* both project_key and relative_path are populated
C4_Populated(d) ==
  TruthyStr(C4_Get(d, "project_key")) /\ TruthySeq(C4_Get(d, "relative_path"))

\* images is, in order, one URL per populated record of sources
RECURSIVE C4_Aligned(_, _)
C4_Aligned(sources, images) ==
  IF Len(sources) = 0 THEN Len(images) = 0
  ELSE IF C4_Populated(sources[1])
    THEN /\ Len(images) > 0
         /\ images[1] = <<UrlBase, CorpusRoot, sources[1].project_key[1]>>
                           \o sources[1].relative_path[1]
         /\ C4_Aligned(Tail(sources), Tail(images))
    ELSE C4_Aligned(Tail(sources), images)

\* images is, in order, the image_url of every record of sources that has one
RECURSIVE C4_UrlAligned(_, _)
C4_UrlAligned(sources, images) ==
  IF Len(sources) = 0 THEN Len(images) = 0
  ELSE IF TruthySeq(C4_Get(sources[1], "image_url"))
    THEN /\ Len(images) > 0
         /\ images[1] = sources[1].image_url[1]
         /\ C4_UrlAligned(Tail(sources), Tail(images))
    ELSE C4_UrlAligned(Tail(sources), images)

\* every entry of images is, in order, the URL of a record of sources with
\* project_key and relative_path both populated
RECURSIVE C4_FromPopulated(_, _)
C4_FromPopulated(sources, images) ==
  IF Len(images) = 0 THEN TRUE
  ELSE IF Len(sources) = 0 THEN FALSE
  ELSE \/ /\ C4_Populated(sources[1])
          /\ images[1] = <<UrlBase, CorpusRoot, sources[1].project_key[1]>>
                            \o sources[1].relative_path[1]
          /\ C4_FromPopulated(Tail(sources), Tail(images))
       \/ C4_FromPopulated(Tail(sources), images)

\* C4 as stated: in the envelope of any route, the entries of images correspond
\* 1:1 and in order to records of sources with project_key and relative_path
\* both populated: a record without them contributes no entry, and every entry
\* comes from such a record.
C4_AsStated ==
  (Done /\ RouteTaken # None /\ WellFormed(envelope)) =>
     C4_FromPopulated(envelope.sources, envelope.images)

\* C4 (amended): in TextToImages and ImageToText, images corresponds 1:1 and in
\* order to the records of sources with project_key and relative_path both
\* populated, and in TextToText images is empty; in ImageToImages images
\* corresponds 1:1 and in order to the records of sources with an image_url,
\* whether or not they have a project_key or a relative_path.
C4_ImagesFollowSources ==
  /\ InRoute(TEXT_TO_IMAGES) => C4_Aligned(envelope.sources, envelope.images)
  /\ InRoute(IMAGE_TO_TEXT) => C4_Aligned(envelope.sources, envelope.images)
  /\ InRoute(TEXT_TO_TEXT) => envelope.images = <<>>
  /\ InRoute(IMAGE_TO_IMAGES) => C4_UrlAligned(envelope.sources, envelope.images)

\* ImageToText sources with a record without relative_path before one with it:
\* one image, for the second record
C4_Witness ==
  /\ InRoute(IMAGE_TO_TEXT)
  /\ Len(envelope.sources) = 2
  /\ IsNone(envelope.sources[1].relative_path)
  /\ C4_Populated(envelope.sources[2])
  /\ envelope.images = <<construct_image_url("P1", PathA)>>

\* C5 as stated: in TextToText and ImageToText the sources have at most top_k
\* entries, for any list the search gateways return.
C5_AsStated ==
  (InRoute(TEXT_TO_TEXT) \/ InRoute(IMAGE_TO_TEXT)) =>
     Len(envelope.sources) <= args.top_k

\* C5 (amended): in ImageToText the sources have at most top_k entries for any
\* lists the gateways return; in TextToText the sources are the list the text
\* search returned, whole, so they have at most top_k entries only if that
\* list has.
C5_SourcesBound ==
  /\ InRoute(IMAGE_TO_TEXT) => Len(envelope.sources) <= args.top_k
  /\ InRoute(TEXT_TO_TEXT) /\ ret = "text_to_text:answer" =>
       envelope.sources = gateways.search_text

\* ImageToText with more fused records than top_k, two of them from one lookup
C5_Witness ==
  /\ InRoute(IMAGE_TO_TEXT)
  /\ Len(gateways.lookup[<<"P1", PathA>>]) = 2
  /\ Len(locals.unique_descriptions) > args.top_k
  /\ Len(envelope.sources) = args.top_k

\* the identity key of the deduplication, field by field
C_Key(d) == <<d.project_key, d.page_num, d.region_number>>

\* no two records of ds have the same identity key
C_KeysDistinct(ds) ==
  \A i, j \in 1..Len(ds) : i # j => C_Key(ds[i]) # C_Key(ds[j])

\* C6: the fused list of ImageToText holds at most one record per identity key
\* (absent equal to absent), and when a visual-path record and a caption-path
\* record share a key the record kept is the visual-path one, tagged
\* CLIP_visual.
C6_VisualWins ==
  InRoute(IMAGE_TO_TEXT) =>
     /\ C_KeysDistinct(locals.unique_descriptions)
     /\ \A v \in 1..Len(locals.visual), c \in 1..Len(locals.text_matches) :
          C_Key(locals.visual[v]) = C_Key(locals.text_matches[c]) =>
             \E u \in 1..Len(locals.unique_descriptions) :
                /\ C_Key(locals.unique_descriptions[u]) = C_Key(locals.visual[v])
                /\ locals.unique_descriptions[u].search_type = Some(CLIP_visual)

\* no identity key occurs both in the visual-path records and in the
\* caption-path records
C7_NoSharedKey ==
  \A v \in 1..Len(locals.visual), c \in 1..Len(locals.text_matches) :
     C_Key(locals.visual[v]) # C_Key(locals.text_matches[c])

\* C7 as stated: in ImageToText, when no identity key is shared between the
\* visual-path records V and the caption-path records C, the sources are V
\* followed by C, cut to the first top_k.
C7_AsStated ==
  InRoute(IMAGE_TO_TEXT) /\ C7_NoSharedKey =>
     IF Len(locals.visual \o locals.text_matches) <= args.top_k
       THEN envelope.sources = locals.visual \o locals.text_matches
       ELSE envelope.sources = SubSeq(locals.visual \o locals.text_matches, 1, args.top_k)

\* C7 (amended): in ImageToText, when no identity key is shared between V and
\* C and none occurs twice within V or within C, the sources are V followed by
\* C, cut to the first top_k.
C7_FusionOrder ==
  InRoute(IMAGE_TO_TEXT) /\ C_KeysDistinct(locals.visual \o locals.text_matches) =>
     IF Len(locals.visual \o locals.text_matches) <= args.top_k
       THEN envelope.sources = locals.visual \o locals.text_matches
       ELSE envelope.sources = SubSeq(locals.visual \o locals.text_matches, 1, args.top_k)

\* two visual-path records of one lookup and a caption-path record, all of
\* different keys, cut to top_k = 2
C7_Witness ==
  /\ InRoute(IMAGE_TO_TEXT)
  /\ Len(locals.visual) = 2 /\ Len(locals.text_matches) = 1
  /\ C_KeysDistinct(locals.visual \o locals.text_matches)
  /\ args.top_k = 2
  /\ envelope.sources = locals.visual

\* C10: in ImageToText every record of the visual path (every row of every
\* lookup) is tagged CLIP_visual and every record of the caption path is tagged
\* GPT4o_Vision_text, so every record of sources carries the tag of its path.
C10_TaggedByPath ==
  InRoute(IMAGE_TO_TEXT) =>
     /\ \A v \in 1..Len(locals.visual) :
          locals.visual[v].search_type = Some(CLIP_visual)
     /\ \A c \in 1..Len(locals.text_matches) :
          locals.text_matches[c].search_type = Some(GPT4o_Vision_text)
     /\ \A i \in 1..Len(envelope.sources) :
          envelope.sources[i].search_type \in {Some(CLIP_visual), Some(GPT4o_Vision_text)}

\* what the gateways of this call give each path of ImageToText: the rows of
\* the lookups of the image matches inside the corpus, and the rows of the
\* text search on the caption
C9_VisualYield ==
  IF IsNone(gateways.image_embedding) THEN 0
  ELSE Cardinality({i \in 1..Len(gateways.clip_matches) : gateways.clip_matches[i] = ClipA})
         * Len(gateways.lookup[<<"P1", PathA>>])

C9_CaptionRows ==
  IF TruthyStr(gateways.caption) /\ ~IsNone(gateways.text_embedding)
    THEN gateways.search_text ELSE <<>>

\* every row of rows is in sources under its key, or sources is full
C9_Reach(rows) ==
  \A i \in 1..Len(rows) :
     \/ \E j \in 1..Len(envelope.sources) : C_Key(envelope.sources[j]) = C_Key(rows[i])
     \/ Len(envelope.sources) = args.top_k

C9_Called(name) == \E i \in 1..Len(calls) : calls[i] = name

C9_NothingFoundEnvelope ==
  Envelope(Text("I couldn't find any relevant information for your image. Please try uploading a different image or adding a text query."),
           <<>>, <<>>)

\* C9: in ImageToText the two paths fail independently. The caption path is
\* run whatever the visual path did, and when the visual path gives nothing
\* the caption rows reach sources (first row first, tagged GPT4o_Vision_text);
\* when the caption path gives nothing the visual rows reach sources (tagged
\* CLIP_visual first). The fixed "nothing found" envelope is returned exactly
\* when both paths give nothing, and the answer is generated exactly otherwise.
C9_PathsIndependent ==
  InRoute(IMAGE_TO_TEXT) =>
     /\ C9_Called("embed_image_clip") /\ C9_Called("describe_image_with_gpt4o")
     /\ TruthyStr(gateways.caption) <=> C9_Called("embed_text_openai")
     /\ (TruthyStr(gateways.caption) /\ ~IsNone(gateways.text_embedding))
          <=> C9_Called("search_text_embeddings")
     /\ ~IsNone(gateways.image_embedding) <=> C9_Called("search_image_embeddings")
     /\ C9_VisualYield = 0 /\ Len(C9_CaptionRows) > 0 =>
          /\ Len(envelope.sources) > 0
          /\ envelope.sources[1] = Tag(C9_CaptionRows[1], GPT4o_Vision_text)
          /\ C9_Reach(C9_CaptionRows)
     /\ Len(C9_CaptionRows) = 0 /\ C9_VisualYield > 0 =>
          /\ Len(envelope.sources) > 0
          /\ envelope.sources[1] = Tag(gateways.lookup[<<"P1", PathA>>][1], CLIP_visual)
          /\ C9_Reach(gateways.lookup[<<"P1", PathA>>])
     /\ (C9_VisualYield = 0 /\ Len(C9_CaptionRows) = 0)
          <=> (Len(locals.unique_descriptions) = 0)
     /\ (Len(locals.unique_descriptions) = 0)
          <=> (ret = "image_to_text:no_results" /\ envelope = C9_NothingFoundEnvelope)
     /\ (Len(locals.unique_descriptions) > 0)
          <=> C9_Called("generate_text_response")

\* the image embedding failed and the caption path's two rows are the sources
C9_Witness ==
  /\ InRoute(IMAGE_TO_TEXT)
  /\ IsNone(gateways.image_embedding)
  /\ gateways.search_text = <<DescB, DescA0>>
  /\ args.top_k = 2
  /\ envelope.sources = <<Tag(DescB, GPT4o_Vision_text), Tag(DescA0, GPT4o_Vision_text)>>
  /\ C9_Called("generate_text_response")

====
